---- MODULE Spec2Model ----
(***************************************************************************)
(* Progressive Qualification Engine of Sales_Engine_Backend.               *)
(*                                                                         *)
(* Part A models the pure functions of DataExtractorService and GroqEngine *)
(* (merge_extractions, calculate_completeness, is_ready_to_qualify,        *)
(* calculate_lead_score).  Part B models the visitor_sessions collection   *)
(* with the /extract and /qualify handlers that read and write it.         *)
(*                                                                         *)
(* Python values are tagged records [t, v]: t is the Python type, v the    *)
(* content as a sequence of strings.  A dict is a function whose DOMAIN is *)
(* the set of keys it holds, so an absent key differs from a None value.   *)
(* Floats of the completeness table are kept in thousandths (0.30 = 300).  *)
(***************************************************************************)
EXTENDS Integers, Sequences, FiniteSets, TLC

VARIABLES
    args,       \* arguments of the pure function under check
    result,     \* <<>> before the call, <<value>> after it
    store,      \* visitor_sessions collection, in insertion (natural) order
    now,        \* datetime.utcnow(), in minutes
    reqs,       \* requests in flight: request id -> handler frame
    leads,      \* leads collection, in insertion order
    ticks,      \* number of clock advances so far
    started,    \* number of requests received so far
    sent,       \* <<answer>> in the state a handler returns into, <<>> otherwise
    dialogue    \* which messages the visitors send: "turns" or "conversation"

vars == <<args, result, store, now, reqs, leads, ticks, started, sent, dialogue>>

-----------------------------------------------------------------------------
(* Bounds *)

MaxListLen == 2
MaxVisitCount == 5
MaxMessageCount == 2
MaxTicks == 2
MaxRequests == 3
MaxInFlight == 2

-----------------------------------------------------------------------------
(* Python values *)

PyNone == [t |-> "none", v |-> <<>>]
PyStr(s) == [t |-> "str", v |-> IF s = "" THEN <<>> ELSE <<s>>]
PyInt(s) == [t |-> "int", v |-> <<s>>]
PyList(items) == [t |-> "list", v |-> items]
PyEmptyMap == [t |-> "map", v |-> <<>>]

Range(s) == {s[i] : i \in 1..Len(s)}

\* bool(x) is False
Falsy(x) ==
    \/ x.t = "none"
    \/ x.t \in {"str", "list", "map"} /\ x.v = <<>>
    \/ x.t = "int" /\ x.v = <<"0">>

\* x in ["", [], {}]
InEmptyLiterals(x) == x.t \in {"str", "list", "map"} /\ x.v = <<>>

\* dict.get(k): None for an absent key
Get(d, k) == IF k \in DOMAIN d THEN d[k] ELSE PyNone

\* dict.get(k, [])
GetOrEmptyList(d, k) == IF k \in DOMAIN d THEN d[k] ELSE PyList(<<>>)

\* set(x or []) for x a list or None
PointSet(x) == IF Falsy(x) THEN {} ELSE Range(x.v)

\* the orders in which list(a_set) can enumerate a set
Orderings(S) ==
    {q \in [1..Cardinality(S) -> S] : \A i, j \in 1..Cardinality(S) : q[i] = q[j] => i = j}

\* a dict that already holds an (empty) pain_points list
EmptyDict_WithPainPoints == [k \in {"pain_points"} |-> PyList(<<>>)]

EmptyDict == [k \in {} |-> PyNone]

ScalarFields ==
    {"visitor_name", "visitor_email", "company", "role", "team_size",
     "current_solution", "budget_indication", "urgency"}

PainPoints == {"p1", "p2"}

\* all lists over S of length at most n
ListsUpTo(S, n) == UNION {[1..m -> S] : m \in 0..n}

\* input generation only: marks a key the dict does not hold
Absent == [t |-> "absent", v |-> <<>>]

\* the dict of a record, without the keys marked Absent
Strip(r) == [k \in {j \in DOMAIN r : r[j] # Absent} |-> r[k]]

-----------------------------------------------------------------------------
(* DataExtractorService.merge_extractions *)

\* any value but None adopted, the empty string included
Meaningful_NotNone(value) == value.t # "none"

\* a new value that may be adopted: not None and not in ["", [], {}]
Meaningful(value) == value.t # "none" /\ ~InEmptyLiterals(value)

\* "not existing_value or existing_value in [None, '', [], {}]"
ExistingIsEmpty(existing_value) ==
    Falsy(existing_value) \/ existing_value.t = "none" \/ InEmptyLiterals(existing_value)

\* existing_points | new_points
MergedPoints_NewOnly(existing, value) == PointSet(value)

MergedPoints(existing, value) ==
    PointSet(GetOrEmptyList(existing, "pain_points")) \cup PointSet(value)

\* every key of new adopted, as merged.update(new) would
AdoptedKeys_All(existing, new) == DOMAIN new

\* keys of new whose value replaces or creates merged[key]
AdoptedKeys(existing, new) ==
    {key \in DOMAIN new :
        \/ key = "pain_points"
        \/ Meaningful(new[key]) /\ ExistingIsEmpty(Get(existing, key))}

\* order: the enumeration list() makes of the union set
merge_extractions(existing, new, order) ==
    [key \in DOMAIN existing \cup AdoptedKeys(existing, new) |->
        IF key \in AdoptedKeys(existing, new)
        THEN IF key = "pain_points" THEN PyList(order) ELSE new[key]
        ELSE existing[key]]

\* every result merge_extractions can return
MergeResults(existing, new) ==
    IF "pain_points" \in DOMAIN new
    THEN {merge_extractions(existing, new, order) :
            order \in Orderings(MergedPoints(existing, new["pain_points"]))}
    ELSE {merge_extractions(existing, new, <<>>)}

_empty_extraction ==
    [key \in ScalarFields \cup {"pain_points"} |->
        IF key = "pain_points" THEN PyList(<<>>) ELSE PyNone]

-----------------------------------------------------------------------------
(* DataExtractorService.calculate_completeness, is_ready_to_qualify *)

\* the weights table, in thousandths, in the dict's iteration order
WeightOrder ==
    <<"team_size", "current_solution", "pain_points", "company",
      "visitor_name", "visitor_email", "role", "budget_indication">>

Weight(field) ==
    CASE field = "team_size" -> 300
      [] field = "current_solution" -> 250
      [] field = "pain_points" -> 200
      [] field = "company" -> 100
      [] field = "visitor_name" -> 100
      [] field = "visitor_email" -> 150
      [] field = "role" -> 25
      [] field = "budget_indication" -> 25

\* "if value and len(value) > 0" for pain_points, "value is not None" otherwise
Counts_EmptyListToo(data, field) == Get(data, field).t # "none"

Counts(data, field) ==
    IF field = "pain_points"
    THEN ~Falsy(Get(data, field)) /\ Len(Get(data, field).v) > 0
    ELSE Get(data, field).t # "none"

RECURSIVE ScoreUpTo(_, _)
ScoreUpTo(data, n) ==
    IF n = 0 THEN 0
    ELSE ScoreUpTo(data, n - 1)
         + (IF Counts(data, WeightOrder[n]) THEN Weight(WeightOrder[n]) ELSE 0)

Min(a, b) == IF a < b THEN a ELSE b

calculate_completeness_NoClamp(data) == ScoreUpTo(data, Len(WeightOrder))

calculate_completeness(data) == Min(ScoreUpTo(data, Len(WeightOrder)), 1000)

ReadyThreshold == 600

is_ready_to_qualify_NoEmail(completeness, data, message_count) ==
    ~(completeness < ReadyThreshold)

is_ready_to_qualify(completeness, data, message_count) ==
    LET has_email == Get(data, "visitor_email").t # "none"
    IN  IF ~has_email THEN FALSE
        ELSE IF completeness < ReadyThreshold THEN FALSE
        ELSE TRUE

-----------------------------------------------------------------------------
(* GroqEngine.calculate_lead_score *)

\* budget_scores.get(x, 0), intent_scores.get(x, 0), sentiment_scores.get(x, 0)
budget_scores(x) ==
    CASE x = "High" -> 40 [] x = "Medium" -> 25 [] x = "Low" -> 10 [] x = "Null" -> 0
      [] OTHER -> 0

intent_scores(x) ==
    CASE x = "Buying" -> 30 [] x = "Researching" -> 20 [] x = "Browsing" -> 10
      [] x = "Support" -> 5 [] OTHER -> 0

sentiment_scores(x) ==
    CASE x = "Positive" -> 20 [] x = "Neutral" -> 10 [] x = "Frustrated" -> 15
      [] x = "Negative" -> 5 [] OTHER -> 0

RawScore(analysis, visit_count) ==
    budget_scores(analysis.budget_signal)
    + intent_scores(analysis.intent)
    + sentiment_scores(analysis.sentiment)
    + Min(Len(analysis.pain_points) * 5, 10)
    + Min((visit_count - 1) * 5, 15)

\* the categorization without the Frustrated override
Categorize_NoOverride(score, sentiment) ==
    [score |-> score,
     category |-> IF score >= 80 THEN "Hot" ELSE IF score >= 50 THEN "Warm" ELSE "Cold",
     priority |-> IF score >= 80 THEN "High" ELSE IF score >= 50 THEN "Medium" ELSE "Low"]

Categorize(score, sentiment) ==
    LET category == IF score >= 80 THEN "Hot" ELSE IF score >= 50 THEN "Warm" ELSE "Cold"
        priority == IF score >= 80 THEN "High" ELSE IF score >= 50 THEN "Medium" ELSE "Low"
    IN  [score |-> score,
         category |-> category,
         priority |-> IF sentiment = "Frustrated" THEN "High" ELSE priority]

calculate_lead_score_NoCap(analysis, visit_count) ==
    Categorize(RawScore(analysis, visit_count), analysis.sentiment)

calculate_lead_score(analysis, visit_count) ==
    Categorize(Min(RawScore(analysis, visit_count), 100), analysis.sentiment)

-----------------------------------------------------------------------------
(* ConversationManager.determine_stage *)

\* the rules with the intent examined before the message count
determine_stage_IntentFirst(message_count, extracted_data, intent) ==
    IF intent = "browsing" THEN "engagement"
    ELSE IF intent = "pricing" THEN "closing"
    ELSE IF message_count = 1 THEN "greeting"
    ELSE IF intent \in {"product_inquiry", "problem_statement"} /\ DOMAIN extracted_data # {}
    THEN (IF Cardinality(DOMAIN extracted_data) >= 3 THEN "qualification" ELSE "discovery")
    ELSE "discovery"

\* intent is intent.get('intent'), "None" when the key is missing
determine_stage(message_count, extracted_data, intent) ==
    IF message_count = 1 THEN "greeting"
    ELSE IF intent \in {"product_inquiry", "problem_statement"} /\ DOMAIN extracted_data # {}
    THEN (IF Cardinality(DOMAIN extracted_data) >= 3 THEN "qualification" ELSE "discovery")
    ELSE IF intent = "browsing" THEN "engagement"
    ELSE IF intent = "pricing" THEN "closing"
    ELSE "discovery"

-----------------------------------------------------------------------------
(* The visitor_sessions collection and SessionManager *)

Visitors == {"v1"}
SessionIds == {"s1", "s2"}
\* "None": the request carries no user_id
UserIds == {"None", "u1"}

SessionTimeoutMinutes == 30
MinutesPerDay == 24 * 60

\* minutes that pass between two steps: a pause of exactly the timeout (two of
\* them exceed it), and a pause of one day and ten minutes
Gaps == {SessionTimeoutMinutes, MinutesPerDay + 10}

\* VisitorSession(...) as get_or_create_session builds it; lead_score -1 and
\* crm_lead_id 0 stand for None.  start_time, last_updated, crm_synced_at,
\* products_interested and qualified (always equal to is_qualified) are left out:
\* nothing modelled here reads them.
NewSession(visitor_id, user_id, session_id, visit_number, t) ==
    [visitor_id |-> visitor_id,
     user_id |-> user_id,
     session_id |-> session_id,
     visit_number |-> visit_number,
     last_message_time |-> t,
     messages |-> <<>>,
     extracted_data |-> EmptyDict,
     data_completeness |-> 0,
     is_qualified |-> FALSE,
     lead_score |-> -1,
     status |-> "active",
     conversation_stage |-> "greeting",
     detected_intent |-> "None",
     crm_lead_id |-> 0,
     crm_synced |-> FALSE,
     crm_sync_error |-> FALSE]

NoSession == NewSession("", "None", "", 0, 0)

\* (datetime.utcnow() - last_message_time).seconds / 60: timedelta.seconds is
\* the part of the difference below one day
TimeDiff_WholeDelta(t, last_message_time) == t - last_message_time

\* the difference left in seconds
TimeDiff_Seconds(t, last_message_time) == ((t - last_message_time) % MinutesPerDay) * 60

TimeDiff(t, last_message_time) == (t - last_message_time) % MinutesPerDay

\* rows matching {"visitor_id": v} plus {"user_id": u} when user_id is truthy
VisitorRows(visitor_id, user_id) ==
    {i \in 1..Len(store) :
        /\ store[i].visitor_id = visitor_id
        /\ (user_id = "None" \/ store[i].user_id = user_id)}

\* find_one(query, sort=[("last_message_time", -1)]): any row with the latest time
MostRecent(rows) ==
    {i \in rows : \A j \in rows : store[j].last_message_time <= store[i].last_message_time}

\* rows matching {"visitor_id": v, "session_id": s}
SessionRows(visitor_id, session_id) ==
    {i \in 1..Len(store) :
        store[i].visitor_id = visitor_id /\ store[i].session_id = session_id}

\* count_documents({"visitor_id": v, "status": {"$in": ["expired", "completed"]}})
ArchivedCount(visitor_id) ==
    Cardinality({i \in 1..Len(store) :
        store[i].visitor_id = visitor_id /\ store[i].status \in {"expired", "completed"}})

\* a handler frame; every frame has the same fields.  lead_score is <<>> or
\* <<the LeadScore of the request>>, analysis <<>> or <<the GroqAnalysisResult>>,
\* analysis_outcome how the analysis call ended ("" before it)
Frame(id, kind, visitor_id, session_id, user_id) ==
    [id |-> id, kind |-> kind, pc |-> "find",
     visitor_id |-> visitor_id, session_id |-> session_id, user_id |-> user_id,
     recent |-> 0, elapsed |-> -1, is_new_visit |-> FALSE, visit_count |-> 0,
     session |-> NoSession,
     score |-> -1, crm_lead_id |-> 0, crm_synced |-> FALSE, crm_sync_error |-> FALSE,
     lead_score |-> <<>>, analysis |-> <<>>, analysis_outcome |-> ""]

\* the handler goes on: frame f becomes g, nothing is answered
Step(f, g) == reqs' = (reqs \ {f}) \cup {g} /\ sent' = <<>>

\* the handler returns: the frame is gone and the answer leaves
Return(f, answer) == reqs' = reqs \ {f} /\ sent' = <<answer>>

\* the answer of /qualify: code is the HTTP status, body <<>> or <<the LeadScore
\* the AnalysisResponse carries>>; trace is the frame as the handler ends
QualifyAnswer(f, code, body) ==
    [id |-> f.id, kind |-> f.kind, code |-> code, body |-> body, trace |-> f]

-----------------------------------------------------------------------------
(* POST /extract *)

\* what one turn's message makes the extraction and intent services return
ExtractionOf(r) ==
    [key \in DOMAIN _empty_extraction |-> IF key \in DOMAIN r THEN r[key] ELSE _empty_extraction[key]]

\* a message that yields email, team size, current solution and two pain points
FullTurn ==
    [extraction |-> ExtractionOf([visitor_email |-> PyStr("a"), team_size |-> PyInt("5"),
                                  current_solution |-> PyStr("a"),
                                  pain_points |-> PyList(<<"p1", "p2">>)]),
     intent |-> "product_inquiry", is_on_topic |-> TRUE]

Turns ==
    {[extraction |-> _empty_extraction, intent |-> "browsing", is_on_topic |-> TRUE],
     FullTurn}

\* the three messages of a conversation: name, company and team size; current
\* solution and a pain point; the email
NameCompanyTeamTurn ==
    [extraction |-> ExtractionOf([visitor_name |-> PyStr("a"), company |-> PyStr("a"),
                                  team_size |-> PyInt("5")]),
     intent |-> "product_inquiry", is_on_topic |-> TRUE]

SolutionPainTurn ==
    [extraction |-> ExtractionOf([current_solution |-> PyStr("a"),
                                  pain_points |-> PyList(<<"p1">>)]),
     intent |-> "problem_statement", is_on_topic |-> TRUE]

EmailTurn ==
    [extraction |-> ExtractionOf([visitor_email |-> PyStr("a")]),
     intent |-> "browsing", is_on_topic |-> TRUE]

\* a message that yields the company only, the email coming back as an empty
\* string; a message off the topic that yields nothing
CompanyTurn ==
    [extraction |-> ExtractionOf([company |-> PyStr("a"), visitor_email |-> PyStr("")]),
     intent |-> "product_inquiry", is_on_topic |-> TRUE]

OffTopicTurn ==
    [extraction |-> _empty_extraction, intent |-> "off_topic", is_on_topic |-> FALSE]

ConversationTurns ==
    {FullTurn, NameCompanyTeamTurn, SolutionPainTurn, EmailTurn, CompanyTurn, OffTopicTurn}

\* what the messages of a dialogue can make the services return
TurnsOf(d) == IF d = "conversation" THEN ConversationTurns ELSE Turns

\* a request that arrives while another is in flight is taken without user_id:
\* this bounds the interleavings explored, not the inputs of a call
ReceiveExtract ==
    /\ started < MaxRequests
    /\ Cardinality(reqs) < MaxInFlight
    /\ \E v \in Visitors, s \in SessionIds, u \in (IF reqs = {} THEN UserIds ELSE {"None"}) :
           reqs' = reqs \cup {Frame(started + 1, "extract", v, s, u)}
    /\ started' = started + 1
    /\ UNCHANGED <<store, now, leads, ticks, args, result, dialogue>>
    /\ sent' = <<>>

\* get_or_create_session, lines 50-67 and 102-106: find the most recent row, branch
\* on the time since its last message; the continue branch returns the stored row
FindRecent(f) ==
    /\ f.kind = "extract" /\ f.pc = "find"
    /\ LET rows == VisitorRows(f.visitor_id, f.user_id)
       IN  IF rows = {}
           THEN Step(f, [f EXCEPT !.pc = "insert_first"])
           ELSE \E i \in MostRecent(rows) :
                    LET time_diff == TimeDiff(now, store[i].last_message_time)
                        g == [f EXCEPT !.recent = i,
                                       !.elapsed = now - store[i].last_message_time]
                    IN  IF time_diff > SessionTimeoutMinutes
                        THEN Step(f, [g EXCEPT !.pc = "archive"])
                        ELSE Step(f, [g EXCEPT !.pc = "save", !.session = store[i],
                                               !.is_new_visit = FALSE])
    /\ UNCHANGED <<store, now, leads, ticks, started, args, result, dialogue>>

\* lines 71-75: update_one({"_id": recent._id}, {"$set": {"status": "expired"}})
ArchiveRecent(f) ==
    /\ f.kind = "extract" /\ f.pc = "archive"
    /\ store' = [store EXCEPT ![f.recent].status = "expired"]
    /\ Step(f, [f EXCEPT !.pc = "count"])
    /\ UNCHANGED <<now, leads, ticks, started, args, result, dialogue>>

\* lines 77-81
CountArchived(f) ==
    /\ f.kind = "extract" /\ f.pc = "count"
    /\ Step(f, [f EXCEPT !.pc = "insert", !.visit_count = ArchivedCount(f.visitor_id)])
    /\ UNCHANGED <<store, now, leads, ticks, started, args, result, dialogue>>

\* lines 83-101: insert the session of the new visit
InsertNewVisit(f) ==
    /\ f.kind = "extract" /\ f.pc = "insert"
    /\ LET new_session ==
               NewSession(f.visitor_id, f.user_id, f.session_id, f.visit_count + 1, now)
       IN  /\ store' = Append(store, new_session)
           /\ Step(f, [f EXCEPT !.pc = "save", !.session = new_session,
                                !.is_new_visit = TRUE])
    /\ UNCHANGED <<now, leads, ticks, started, args, result, dialogue>>

\* lines 107-126: insert the session of the first visit
InsertFirstVisit(f) ==
    /\ f.kind = "extract" /\ f.pc = "insert_first"
    /\ LET new_session == NewSession(f.visitor_id, f.user_id, f.session_id, 1, now)
       IN  /\ store' = Append(store, new_session)
           /\ Step(f, [f EXCEPT !.pc = "save", !.session = new_session,
                                !.is_new_visit = TRUE])
    /\ UNCHANGED <<now, leads, ticks, started, args, result, dialogue>>

\* update_session: replace_one({"visitor_id", "session_id"}, session, upsert=True)
\* replaces one matching row whole (MongoDB does not fix which one when several
\* match), or inserts the session when none matches.  store is the collection
\* after the call, replaced <<the row that was replaced>> or <<>>
ReplaceOne_Append(session) == {[store |-> Append(store, session), replaced |-> <<>>]}

\* a save that writes the session but keeps the facts the stored row holds
ReplaceOne_KeepStoredFacts(session) ==
    LET rows == SessionRows(session.visitor_id, session.session_id)
    IN  IF rows = {} THEN {[store |-> Append(store, session), replaced |-> <<>>]}
        ELSE {[store |-> [store EXCEPT ![i] = [session EXCEPT !.extracted_data =
                                                  store[i].extracted_data]],
               replaced |-> <<store[i]>>] : i \in rows}

ReplaceOne(session) ==
    LET rows == SessionRows(session.visitor_id, session.session_id)
    IN  IF rows = {} THEN {[store |-> Append(store, session), replaced |-> <<>>]}
        ELSE {[store |-> [store EXCEPT ![i] = session], replaced |-> <<store[i]>>] : i \in rows}

\* update_session: the store after the call and the boolean it returns; when
\* replace_one raises, the store is as before and the result is False
update_session(session) ==
    {[store |-> r.store, ok |-> TRUE, replaced |-> r.replaced] : r \in ReplaceOne(session)}
        \cup {[store |-> store, ok |-> FALSE, replaced |-> <<>>]}

\* the status of the /extract answer that fails when the session was not saved
ExtractStatus_ErrorWhenNotSaved(saved) == IF saved THEN 200 ELSE 500

\* extract_data, lines 169-186: the result of update_session is not read
ExtractStatus(saved) == 200

\* extract_data, lines 132-167: the source of the reply; "None" is the null that
\* triggers qualification, every other value stands for a text of that source
next_question(session, ready, turn) ==
    IF session.is_qualified THEN "conversational"
    ELSE IF ready
    THEN (IF Falsy(Get(session.extracted_data, "visitor_email")) THEN "ask_email" ELSE "None")
    ELSE IF ~turn.is_on_topic THEN "redirect"
    ELSE IF turn.intent = "browsing" THEN "engagement"
    ELSE "conversational"

\* ExtractionResponse(...), lines 178-186
ExtractionResponse(session, ready, question) ==
    [extracted_data |-> session.extracted_data,
     next_question |-> question,
     ready_to_qualify |-> ready,
     completeness |-> session.data_completeness,
     message_count |-> Len(session.messages),
     visit_number |-> session.visit_number,
     already_qualified |-> session.is_qualified]

\* extract_data, lines 82-186: the turn's computation on the session it got,
\* update_session, and the answer; the message is identified by the number of
\* its request.  Next to the status and the body the answer records what
\* update_session, extract_from_message and detect_intent returned, the stage
\* computed, the row the save replaced, and the frame (with the session the
\* turn got) as it was before the turn's computation
SaveTurn(f) ==
    /\ f.kind = "extract" /\ f.pc = "save"
    /\ \E turn \in TurnsOf(dialogue) :
         \E merged \in MergeResults(f.session.extracted_data, turn.extraction) :
           \E session \in {[f.session EXCEPT
                              !.messages = Append(f.session.messages, f.id),
                              !.detected_intent = turn.intent,
                              !.extracted_data = merged,
                              !.data_completeness = calculate_completeness(merged),
                              !.conversation_stage =
                                  determine_stage(Len(f.session.messages) + 1, merged,
                                                  turn.intent),
                              !.last_message_time = now]} :
           LET ready == is_ready_to_qualify(session.data_completeness, merged,
                                            Len(session.messages))
           IN  \E out \in update_session(session) :
                   /\ store' = out.store
                   /\ Return(f, [id |-> f.id, kind |-> f.kind,
                                 code |-> ExtractStatus(out.ok),
                                 body |-> IF ExtractStatus(out.ok) = 200
                                          THEN <<ExtractionResponse(session, ready,
                                                     next_question(session, ready, turn))>>
                                          ELSE <<>>,
                                 saved |-> out.ok,
                                 new_extraction |-> turn.extraction,
                                 intent |-> turn.intent,
                                 stage |-> session.conversation_stage,
                                 replaced |-> out.replaced,
                                 trace |-> f])
    /\ UNCHANGED <<now, leads, ticks, started, args, result, dialogue>>

\* SessionManager.mark_session_completed: update_one sets the status of one
\* matching row; a call counts as a request
mark_session_completed ==
    /\ started < MaxRequests
    /\ \E v \in Visitors, s \in SessionIds :
         /\ SessionRows(v, s) # {}
         /\ \E i \in SessionRows(v, s) :
              /\ store[i].status # "completed"
              /\ store' = [store EXCEPT ![i].status = "completed"]
    /\ started' = started + 1
    /\ UNCHANGED <<now, reqs, leads, ticks, args, result, dialogue>>
    /\ sent' = <<>>

-----------------------------------------------------------------------------
(* POST /qualify *)

\* what the analysis service's output parses to: with it the score is 65 on the
\* first visit and 5 more for each further session row of the visitor
Analyses ==
    {[sentiment |-> "Neutral", intent |-> "Browsing", budget_signal |-> "High",
      pain_points |-> <<"p1">>, recommended_action |-> "Schedule Demo",
      competitor_mentioned |-> "None"]}

\* groq_service.py lines 86-93: the result built when json.loads raises
DefaultAnalysis ==
    [sentiment |-> "Neutral", intent |-> "Browsing", budget_signal |-> "Null",
     pain_points |-> <<>>, recommended_action |-> "Nurture",
     competitor_mentioned |-> "None"]

\* analyze_chat_intent when it returns: parsed is what the service's output
\* parses to, outcome "ok" or "malformed" (JSONDecodeError)
analyze_chat_intent(outcome, parsed) ==
    IF outcome = "malformed" THEN DefaultAnalysis ELSE parsed

ReceiveQualify ==
    /\ started < MaxRequests
    /\ Cardinality(reqs) < MaxInFlight
    /\ \E v \in Visitors, s \in SessionIds :
           reqs' = reqs \cup {Frame(started + 1, "qualify", v, s, "None")}
    /\ started' = started + 1
    /\ UNCHANGED <<store, now, leads, ticks, args, result, dialogue>>
    /\ sent' = <<>>

\* update_one(filter, {"$set": fields}) on one matching row, nothing when none
\* matches; fields is the record given to $set
UpdateOne(visitor_id, session_id, fields) ==
    LET rows == SessionRows(visitor_id, session_id)
        Set(row) == [k \in DOMAIN row |-> IF k \in DOMAIN fields THEN fields[k] ELSE row[k]]
    IN  IF rows = {} THEN {store}
        ELSE {[store EXCEPT ![i] = Set(store[i])] : i \in rows}

\* a missing session answered as an internal failure
QualifyNotFound_AsInternalError(f) ==
    /\ f.kind = "qualify" /\ f.pc = "find"
    /\ SessionRows(f.visitor_id, f.session_id) = {}
    /\ Return(f, QualifyAnswer(f, 500, <<>>))
    /\ UNCHANGED <<store, now, leads, ticks, started, args, result, dialogue>>

\* lines 221-239: no row for the pair ends the request with 404
QualifyNotFound(f) ==
    /\ f.kind = "qualify" /\ f.pc = "find"
    /\ SessionRows(f.visitor_id, f.session_id) = {}
    /\ Return(f, QualifyAnswer(f, 404, <<>>))
    /\ UNCHANGED <<store, now, leads, ticks, started, args, result, dialogue>>

\* the analysis failing after the session was marked qualified
QualifyAnalysisFails_AfterMark(f) ==
    /\ f.kind = "qualify" /\ f.pc = "find"
    /\ SessionRows(f.visitor_id, f.session_id) # {}
    /\ store' \in UpdateOne(f.visitor_id, f.session_id, [is_qualified |-> TRUE])
    /\ Return(f, QualifyAnswer([f EXCEPT !.analysis_outcome = "error"], 500, <<>>))
    /\ UNCHANGED <<now, leads, ticks, started, args, result, dialogue>>

\* lines 246-248 and 390-397: analyze_chat_intent raises (any failure other
\* than malformed JSON), the request ends with 500
QualifyAnalysisFails(f) ==
    /\ f.kind = "qualify" /\ f.pc = "find"
    /\ SessionRows(f.visitor_id, f.session_id) # {}
    /\ Return(f, QualifyAnswer([f EXCEPT !.analysis_outcome = "error"], 500, <<>>))
    /\ UNCHANGED <<store, now, leads, ticks, started, args, result, dialogue>>

\* SessionManager.get_visit_count(visitor_id, session.user_id)
get_visit_count(visitor_id, user_id) == Cardinality(VisitorRows(visitor_id, user_id))

\* lines 221-260: find the session, analyze, count the visits, score
QualifyScore(f) ==
    /\ f.kind = "qualify" /\ f.pc = "find"
    /\ \E i \in SessionRows(f.visitor_id, f.session_id), parsed \in Analyses,
          outcome \in {"ok", "malformed"} :
         LET analysis == analyze_chat_intent(outcome, parsed)
             visit_count == get_visit_count(f.visitor_id, store[i].user_id)
             score_data == calculate_lead_score(analysis, visit_count)
         IN  Step(f, [f EXCEPT !.pc = "mark", !.visit_count = visit_count,
                               !.score = score_data.score,
                               !.lead_score = <<score_data>>,
                               !.analysis = <<analysis>>,
                               !.analysis_outcome = outcome])
    /\ UNCHANGED <<store, now, leads, ticks, started, args, result, dialogue>>

\* lines 272-286
QualifyMark(f) ==
    /\ f.kind = "qualify" /\ f.pc = "mark"
    /\ store' \in UpdateOne(f.visitor_id, f.session_id,
                             [is_qualified |-> TRUE, lead_score |-> f.score])
    /\ Step(f, [f EXCEPT !.pc = "lead"])
    /\ UNCHANGED <<now, leads, ticks, started, args, result, dialogue>>

\* lines 288-300: insert the lead document; by is the request that inserted it
QualifyStoreLead(f) ==
    /\ f.kind = "qualify" /\ f.pc = "lead"
    /\ leads' = Append(leads, [visitor_id |-> f.visitor_id, by |-> f.id,
                               score |-> f.score, synced_to_crm |-> FALSE,
                               crm_lead_id |-> 0])
    /\ Step(f, [f EXCEPT !.pc = "crm"])
    /\ UNCHANGED <<store, now, ticks, started, args, result, dialogue>>

\* a CRM failure that is not caught: the request ends with 500
QualifyCrmSync_Propagates(f) ==
    /\ f.kind = "qualify" /\ f.pc = "crm"
    /\ Return(f, QualifyAnswer([f EXCEPT !.pc = "crm_status", !.crm_sync_error = TRUE],
                               500, <<>>))
    /\ UNCHANGED <<store, now, leads, ticks, started, args, result, dialogue>>

\* lines 304-358: create_lead returns an id (the id is the request's number),
\* returns none, or raises; with an id, leads.update_one({"visitor_id"}) marks one
\* lead of the visitor
QualifyCrmSync(f) ==
    /\ f.kind = "qualify" /\ f.pc = "crm"
    /\ \/ /\ \E j \in {k \in 1..Len(leads) : leads[k].visitor_id = f.visitor_id} :
                leads' = [leads EXCEPT ![j].synced_to_crm = TRUE, ![j].crm_lead_id = f.id]
          /\ \E alert_raises \in BOOLEAN :
                Step(f, [f EXCEPT !.pc = "crm_status", !.crm_lead_id = f.id,
                                  !.crm_synced = TRUE,
                                  !.crm_sync_error = (f.score >= 70 /\ alert_raises)])
       \/ /\ UNCHANGED leads
          /\ Step(f, [f EXCEPT !.pc = "crm_status", !.crm_sync_error = TRUE])
    /\ UNCHANGED <<store, now, ticks, started, args, result, dialogue>>

\* lines 360-388: record the sync status on the session and answer
QualifyCrmStatus(f) ==
    /\ f.kind = "qualify" /\ f.pc = "crm_status"
    /\ store' \in UpdateOne(f.visitor_id, f.session_id,
                             [crm_lead_id |-> f.crm_lead_id,
                              crm_synced |-> f.crm_synced,
                              crm_sync_error |-> f.crm_sync_error])
    /\ Return(f, QualifyAnswer(f, 200, f.lead_score))
    /\ UNCHANGED <<now, leads, ticks, started, args, result, dialogue>>

-----------------------------------------------------------------------------
(* The clock, and the specification of the service *)

\* the clock advances by half an hour or more between requests; a request is
\* over within seconds
Tick ==
    /\ ticks < MaxTicks
    /\ reqs = {}
    /\ \E gap \in Gaps : now' = now + gap
    /\ ticks' = ticks + 1
    /\ UNCHANGED <<store, reqs, leads, started, args, result, dialogue>>
    /\ sent' = <<>>

Init ==
    /\ store = <<>>
    /\ now = 0
    /\ reqs = {}
    /\ leads = <<>>
    /\ ticks = 0
    /\ started = 0
    /\ sent = <<>>
    /\ dialogue = "turns"
    /\ args = <<>>
    /\ result = <<>>

\* one step of the handler running in frame f
HandlerStep(f) ==
    \/ FindRecent(f)
    \/ ArchiveRecent(f)
    \/ CountArchived(f)
    \/ InsertNewVisit(f)
    \/ InsertFirstVisit(f)
    \/ SaveTurn(f)
    \/ QualifyNotFound(f)
    \/ QualifyAnalysisFails(f)
    \/ QualifyScore(f)
    \/ QualifyMark(f)
    \/ QualifyStoreLead(f)
    \/ QualifyCrmSync(f)
    \/ QualifyCrmStatus(f)

\* requests arrive at any time and their steps interleave
Next ==
    \/ ReceiveExtract
    \/ ReceiveQualify
    \/ Tick
    \/ mark_session_completed
    \/ \E f \in reqs : HandlerStep(f)

Spec == Init /\ [][Next]_vars

\* non-overlapping calls: a request arrives only when none is in flight
NextSeq ==
    \/ reqs = {} /\ ReceiveExtract
    \/ reqs = {} /\ ReceiveQualify
    \/ reqs = {} /\ mark_session_completed
    \/ Tick
    \/ \E f \in reqs : HandlerStep(f)

SpecSeq == Init /\ [][NextSeq]_vars

\* non-overlapping calls whose messages are those of the conversations
InitConv ==
    /\ store = <<>>
    /\ now = 0
    /\ reqs = {}
    /\ leads = <<>>
    /\ ticks = 0
    /\ started = 0
    /\ sent = <<>>
    /\ dialogue = "conversation"
    /\ args = <<>>
    /\ result = <<>>

SpecConv == InitConv /\ [][NextSeq]_vars

-----------------------------------------------------------------------------
(* Specifications of the pure functions: Init draws the arguments, the     *)
(* action applies the function once.                                       *)

\* the collections are not touched by a pure function
StoreIdle ==
    /\ store = <<>> /\ now = 0 /\ reqs = {} /\ leads = <<>> /\ ticks = 0 /\ started = 0
    /\ sent = <<>> /\ dialogue = ""

StoreUnchanged == UNCHANGED <<store, now, reqs, leads, ticks, started, sent, dialogue>>

EmailValues ==
    {Absent, PyNone, PyStr(""), PyList(<<>>), PyEmptyMap, PyStr("a"), PyStr("b")}

TeamSizeValues == {Absent, PyNone, PyInt("0"), PyInt("5")}

PainPointLists == {PyList(l) : l \in ListsUpTo(PainPoints, MaxListLen)}

\* accumulated fact sets: pain_points is absent or a list
MergeExistingInputs ==
    {Strip(r) : r \in [visitor_email : EmailValues, team_size : TeamSizeValues,
                       pain_points : PainPointLists \cup {Absent}]}

\* extraction results: pain_points may also be null; the failure result is one of them
MergeNewInputs ==
    {Strip(r) : r \in [visitor_email : EmailValues, team_size : TeamSizeValues,
                       pain_points : PainPointLists \cup {Absent, PyNone}]}
    \cup {_empty_extraction}

InitMerge ==
    /\ args \in [existing : MergeExistingInputs, new : MergeNewInputs]
    /\ result = <<>>
    /\ StoreIdle

CallMerge ==
    /\ result = <<>>
    /\ \E merged \in MergeResults(args.existing, args.new) : result' = <<merged>>
    /\ UNCHANGED args
    /\ StoreUnchanged

SpecMerge == InitMerge /\ [][CallMerge]_vars

\* fact sets over the weighted fields
CompletenessInputs ==
    {Strip(r) : r \in [team_size : TeamSizeValues,
                       current_solution : {Absent, PyNone, PyStr("a")},
                       pain_points : {Absent, PyNone, PyList(<<>>), PyList(<<"p1">>),
                                      PyList(<<"p1", "p2">>)},
                       company : {Absent, PyNone, PyStr("a")},
                       visitor_name : {Absent, PyNone, PyStr("a")},
                       visitor_email : {Absent, PyNone, PyStr(""), PyStr("a")},
                       role : {Absent, PyStr("a")},
                       budget_indication : {Absent, PyStr("a")},
                       urgency : {Absent, PyStr("a")}]}

InitCompleteness ==
    /\ args \in [data : CompletenessInputs]
    /\ result = <<>>
    /\ StoreIdle

CallCompleteness ==
    /\ result = <<>>
    /\ result' = <<calculate_completeness(args.data)>>
    /\ UNCHANGED args
    /\ StoreUnchanged

SpecCompleteness == InitCompleteness /\ [][CallCompleteness]_vars

\* completeness values around the threshold and over the whole range
ReadyCompletenessValues ==
    {c \in 0..1000 : c % 25 = 0} \cup {ReadyThreshold - 1, ReadyThreshold + 1}

InitReady ==
    /\ args \in [completeness : ReadyCompletenessValues,
                 data : {Strip(r) : r \in [visitor_email : EmailValues \ {PyList(<<>>), PyEmptyMap},
                                           team_size : TeamSizeValues]},
                 message_count : 0..MaxMessageCount]
    /\ result = <<>>
    /\ StoreIdle

CallReady ==
    /\ result = <<>>
    /\ result' = <<is_ready_to_qualify(args.completeness, args.data, args.message_count)>>
    /\ UNCHANGED args
    /\ StoreUnchanged

SpecReady == InitReady /\ [][CallReady]_vars

\* every key of the three score tables (GroqAnalysisResult admits a subset of them)
BudgetSignals == {"High", "Medium", "Low", "Null"}
Intents == {"Buying", "Researching", "Browsing", "Support"}
Sentiments == {"Positive", "Neutral", "Frustrated", "Negative"}

InitScore ==
    /\ args \in [analysis : [budget_signal : BudgetSignals, intent : Intents,
                             sentiment : Sentiments,
                             pain_points : ListsUpTo({"p1"}, MaxListLen + 1)],
                 visit_count : 1..MaxVisitCount]
    /\ result = <<>>
    /\ StoreIdle

CallScore ==
    /\ result = <<>>
    /\ result' = <<calculate_lead_score(args.analysis, args.visit_count)>>
    /\ UNCHANGED args
    /\ StoreUnchanged

SpecScore == InitScore /\ [][CallScore]_vars

-----------------------------------------------------------------------------
(* Claims about the pure functions *)

\* the claim's notion of a non-empty value: not null, not "", [] or {}
NonEmptyValue(x) == x.t # "none" /\ ~InEmptyLiterals(x)

\* C5 (as stated): merge_extractions is non-destructive. Every field other than
\* pain_points that holds a non-empty value in existing keeps exactly that value;
\* a field changes only from empty to the meaningful value given in new; a null
\* or empty value in new changes nothing.
C5_MergeNonDestructive ==
    result # <<>> =>
        LET E == args.existing
            N == args.new
            M == result[1]
        IN  \A key \in (DOMAIN E \cup DOMAIN N \cup DOMAIN M) \ {"pain_points"} :
                /\ (key \in DOMAIN E /\ NonEmptyValue(E[key]))
                       => (key \in DOMAIN M /\ M[key] = E[key])
                /\ Get(M, key) # Get(E, key)
                       => /\ ~NonEmptyValue(Get(E, key))
                          /\ key \in DOMAIN N
                          /\ NonEmptyValue(N[key])
                          /\ M[key] = N[key]
                /\ (key \notin DOMAIN N \/ ~NonEmptyValue(N[key]))
                       => /\ (key \in DOMAIN M) = (key \in DOMAIN E)
                          /\ Get(M, key) = Get(E, key)

\* the pain points a fact set holds, as a set (none when the key is absent or null)
PainPointsOf(d) == PointSet(Get(d, "pain_points"))

\* C6: the pain_points of merge_extractions(E, N), taken as a set, are exactly
\* E.pain_points united with N.pain_points, and never fewer than E's.
C6_PainPointsUnion ==
    result # <<>> =>
        /\ PainPointsOf(result[1]) = PainPointsOf(args.existing) \cup PainPointsOf(args.new)
        /\ PainPointsOf(args.existing) \subseteq PainPointsOf(result[1])
        /\ PainPointsOf(args.new) \subseteq PainPointsOf(result[1])
        /\ Cardinality(PainPointsOf(result[1])) >= Cardinality(PainPointsOf(args.existing))

\* C6 witness: a merge of {p1} with {p2} has produced both points
C6_Witness ==
    /\ result # <<>>
    /\ PainPointsOf(args.existing) = {"p1"}
    /\ PainPointsOf(args.new) = {"p2"}
    /\ PainPointsOf(result[1]) = {"p1", "p2"}

\* C7 (as stated): merging the all-null extraction is the identity,
\* merge_extractions(E, empty) == E for every E, the empty mapping included.
C7_EmptyMergeIdentity ==
    (result # <<>> /\ args.new = _empty_extraction) => result[1] = args.existing

\* C8: is_ready_to_qualify is true iff visitor_email is present (not None) and
\* completeness >= 0.6; it is false whenever visitor_email is None, and its
\* result does not depend on message_count.
C8_ReadyIffEmailAndThreshold ==
    result # <<>> =>
        LET email_present ==
                "visitor_email" \in DOMAIN args.data /\ args.data["visitor_email"] # PyNone
        IN  /\ result[1] = (email_present /\ args.completeness >= 600)
            /\ (~email_present => result[1] = FALSE)
            /\ \A m \in 0..MaxMessageCount :
                   is_ready_to_qualify(args.completeness, args.data, m) = result[1]

\* C8 witness: the gate opened exactly at the threshold, and stayed shut without email
C8_Witness ==
    /\ result = <<TRUE>>
    /\ args.completeness = 600
    /\ args.message_count = 0

\* a scalar field is present iff it is non-null; pain_points iff a non-empty list
C9Present(data, field) ==
    /\ field \in DOMAIN data
    /\ IF field = "pain_points"
       THEN data[field].t = "list" /\ data[field].v # <<>>
       ELSE data[field] # PyNone

C9W(data, field, w) == IF C9Present(data, field) THEN w ELSE 0

C9Sum(data) ==
    C9W(data, "team_size", 300) + C9W(data, "current_solution", 250)
    + C9W(data, "pain_points", 200) + C9W(data, "visitor_email", 150)
    + C9W(data, "company", 100) + C9W(data, "visitor_name", 100)
    + C9W(data, "role", 25) + C9W(data, "budget_indication", 25)

\* data with field set to a present value
C9Add(data, field) ==
    [k \in DOMAIN data \cup {field} |->
        IF k = field
        THEN (IF field = "pain_points" THEN PyList(<<"p1">>) ELSE PyStr("a"))
        ELSE data[k]]

C10Budget(a) ==
    IF a.budget_signal = "High" THEN 40
    ELSE IF a.budget_signal = "Medium" THEN 25
    ELSE IF a.budget_signal = "Low" THEN 10 ELSE 0

C10Intent(a) ==
    IF a.intent = "Buying" THEN 30
    ELSE IF a.intent = "Researching" THEN 20
    ELSE IF a.intent = "Browsing" THEN 10 ELSE 5

C10Sentiment(a) ==
    IF a.sentiment = "Positive" THEN 20
    ELSE IF a.sentiment = "Frustrated" THEN 15
    ELSE IF a.sentiment = "Neutral" THEN 10 ELSE 5

C10Sum(a, visit_count) ==
    LET pain == IF 5 * Len(a.pain_points) > 10 THEN 10 ELSE 5 * Len(a.pain_points)
        visit == IF 5 * (visit_count - 1) > 15 THEN 15 ELSE 5 * (visit_count - 1)
    IN  C10Budget(a) + C10Intent(a) + C10Sentiment(a) + pain + visit

-----------------------------------------------------------------------------
(* Claims about the session store *)

\* C1 (as stated): is_qualified is a one-way latch per session row: once the
\* stored is_qualified of a row is true, no step stores it as false.
C1_QualifiedLatch ==
    [][\A i \in 1..Len(store) : store[i].is_qualified => store'[i].is_qualified]_vars

\* C2 (as stated): whenever get_or_create_session finds the visitor's most recent
\* session with a last_message_time more than 30 minutes old (a day or more
\* included), it takes the new-visit path and returns a new, empty session with
\* is_new_visit = True.
C2_TimeoutStartsNewVisit ==
    \A f \in reqs :
        (f.kind = "extract" /\ f.recent # 0 /\ f.elapsed > SessionTimeoutMinutes)
            => \/ f.pc \in {"archive", "count", "insert"}
               \/ /\ f.pc = "save"
                  /\ f.is_new_visit
                  /\ f.session.messages = <<>>

\* C3 (as stated): the rows of one visitor, in creation order, carry strictly
\* increasing visit_number values starting at 1.
C3_VisitNumbersIncrease ==
    \A i \in 1..Len(store) :
        /\ (\A j \in 1..(i - 1) : store[j].visitor_id # store[i].visitor_id)
               => store[i].visit_number = 1
        /\ \A j \in (i + 1)..Len(store) :
               store[j].visitor_id = store[i].visitor_id
                   => store[i].visit_number < store[j].visit_number

\* C4 (as stated): the store never holds two rows with the same
\* (visitor_id, session_id) pair.
C4_OneRowPerPair ==
    \A i, j \in 1..Len(store) :
        (store[i].visitor_id = store[j].visitor_id /\ store[i].session_id = store[j].session_id)
            => i = j

-----------------------------------------------------------------------------
(* Claims about the category and priority of a lead *)

\* C11: for every result of calculate_lead_score, category is Hot iff score >= 80,
\* Warm iff 50 <= score < 80 and Cold iff score < 50; priority is High iff the
\* category is Hot or the sentiment is Frustrated, and otherwise Medium for Warm
\* and Low for Cold; the Frustrated override leaves score and category as the
\* score formula and the thresholds give them.
C11_CategoryAndPriority ==
    result # <<>> =>
        LET r == result[1]
            frustrated == args.analysis.sentiment = "Frustrated"
        IN  /\ r.category \in {"Hot", "Warm", "Cold"}
            /\ (r.category = "Hot") = (r.score >= 80)
            /\ (r.category = "Warm") = (r.score >= 50 /\ r.score < 80)
            /\ (r.category = "Cold") = (r.score < 50)
            /\ (r.priority = "High") = (r.category = "Hot" \/ frustrated)
            /\ ~frustrated => /\ (r.category = "Warm" => r.priority = "Medium")
                              /\ (r.category = "Cold" => r.priority = "Low")
            /\ r.score = (IF C10Sum(args.analysis, args.visit_count) > 100 THEN 100
                          ELSE C10Sum(args.analysis, args.visit_count))

\* C11 witness: a Frustrated visitor scored below 50 is Cold with priority High
C11_Witness ==
    /\ result # <<>>
    /\ args.analysis.sentiment = "Frustrated"
    /\ result[1].score < 50
    /\ result[1].category = "Cold"
    /\ result[1].priority = "High"

-----------------------------------------------------------------------------
(* Claims about /qualify and get_or_create_session *)

\* a /qualify call that has not yet read its session, and every stored row of
\* its (visitor_id, session_id) pair is already qualified
C12AlreadyQualified(f) ==
    /\ f.kind = "qualify" /\ f.pc = "find"
    /\ SessionRows(f.visitor_id, f.session_id) # {}
    /\ \A i \in SessionRows(f.visitor_id, f.session_id) : store[i].is_qualified

\* C12 (as stated): qualification runs at most once per session. A /qualify call
\* for a session whose stored is_qualified is already true is stopped: it stays
\* where it is or answers, it never goes on to score the lead, and so inserts no
\* further lead record and starts no further CRM sync.
C12_QualifyAtMostOnce ==
    [][\A f \in reqs : C12AlreadyQualified(f) =>
          \A g \in reqs' : g.id = f.id => g.pc = "find"]_vars

\* the visitor's most recent session, as the call of frame f sees it, has a
\* last_message_time at most 30 minutes before the call
C13RecentWithinTimeout(f) ==
    /\ f.kind = "extract" /\ f.pc = "find"
    /\ VisitorRows(f.visitor_id, f.user_id) # {}
    /\ \A i \in VisitorRows(f.visitor_id, f.user_id) : now - store[i].last_message_time <= 30

C14Moved(f, g) == g.id = f.id /\ g.pc # f.pc

\* the rows stored before the step are all stored unchanged after it
C14RowsKept == \A i \in 1..Len(store) : store'[i] = store[i]

\* a row as get_or_create_session creates it: no message, no fact, active
C14Fresh(row) ==
    /\ row.messages = <<>>
    /\ DOMAIN row.extracted_data = {}
    /\ row.status = "active"

\* C14: every session get_or_create_session creates (first visit or new visit
\* after a timeout) starts with empty messages and empty extracted_data whatever
\* the prior session holds; the session of a first visit gets visit_number 1 and
\* status active; on a new visit the prior row stays stored with its messages and
\* extracted_data, only its status becoming expired.
C14_FreshSession ==
    [][\A f \in reqs : \A g \in reqs' : (f.kind = "extract" /\ C14Moved(f, g)) =>
          /\ f.pc \in {"insert", "insert_first"} =>
                /\ Len(store') = Len(store) + 1
                /\ C14RowsKept
                /\ C14Fresh(store'[Len(store')])
                /\ g.session = store'[Len(store')]
                /\ g.is_new_visit
          /\ f.pc = "insert_first" => store'[Len(store')].visit_number = 1
          /\ f.pc = "archive" =>
                /\ Len(store') = Len(store)
                /\ \A i \in 1..Len(store) : i # f.recent => store'[i] = store[i]
                /\ store'[f.recent] = [store[f.recent] EXCEPT !.status = "expired"]
          /\ f.pc = "count" => store' = store]_vars

\* C14 witness: a new visit has got its empty second session while the prior
\* row, now expired, still holds its message and the email it had gathered
C14_Witness ==
    \E f \in reqs :
        /\ f.kind = "extract" /\ f.pc = "save" /\ f.is_new_visit /\ f.recent # 0
        /\ store[f.recent].status = "expired"
        /\ store[f.recent].messages # <<>>
        /\ Get(store[f.recent].extracted_data, "visitor_email") = PyStr("a")
        /\ f.session = store[Len(store)]
        /\ C14Fresh(f.session)
        /\ f.session.visit_number = 2

\* s is a prefix of t
C15Prefix(s, t) == Len(s) <= Len(t) /\ \A k \in 1..Len(s) : t[k] = s[k]

\* C15 (as stated): the stored messages of a session row are append-only. Each
\* stored value of messages is the previous stored value with elements appended
\* at the end, under any sequence or interleaving of /extract turns.
C15_MessagesAppendOnly ==
    [][\A i \in 1..Len(store) : C15Prefix(store[i].messages, store'[i].messages)]_vars

-----------------------------------------------------------------------------
(* Claims about failures *)

\* the answer of an /extract turn whose update_session returned False
C16Unsaved == sent # <<>> /\ sent[1].kind = "extract" /\ ~sent[1].saved

\* C16: a storage error inside update_session never propagates. When the
\* replace raises, update_session returns False and the /extract turn still
\* answers 200 with its normal response: the extracted data of the turn, their
\* completeness and the ready_to_qualify computed from them.
C16_UpdateErrorNotRaised ==
    C16Unsaved =>
        /\ sent[1].code = 200
        /\ sent[1].body # <<>>
        /\ LET body == sent[1].body[1]
           IN  /\ body.message_count >= 1
               /\ body.completeness = calculate_completeness(body.extracted_data)
               /\ body.ready_to_qualify =
                      is_ready_to_qualify(body.completeness, body.extracted_data,
                                          body.message_count)

\* C16 witness: the turn answered that the visitor is ready to qualify although
\* its message was never stored
C16_Witness ==
    /\ C16Unsaved
    /\ sent[1].code = 200
    /\ sent[1].body[1].ready_to_qualify
    /\ sent[1].body[1].message_count = 1
    /\ \A i \in 1..Len(store) : sent[1].id \notin Range(store[i].messages)

\* a value the claim counts as populated: not null, not "", [] or {}
C17Populated(x) == x.t # "none" /\ ~InEmptyLiterals(x)

\* the answer of an /extract turn whose extraction failed
C17ExtractionFailed ==
    sent # <<>> /\ sent[1].kind = "extract" /\ sent[1].new_extraction = _empty_extraction

\* the session the turn got, and its messages with the turn's message appended
C17Before == sent[1].trace.session
C17Messages == Append(C17Before.messages, sent[1].id)

\* every populated field of the session's extracted_data is in data with the
\* same value
C17Kept(data) ==
    \A key \in DOMAIN C17Before.extracted_data :
        C17Populated(C17Before.extracted_data[key])
            => key \in DOMAIN data /\ data[key] = C17Before.extracted_data[key]

\* the same, the pain_points list compared by the points it holds
C17KeptAsSet(data) ==
    \A key \in DOMAIN C17Before.extracted_data :
        C17Populated(C17Before.extracted_data[key])
            => /\ key \in DOMAIN data
               /\ IF key = "pain_points"
                  THEN /\ data[key].t = "list"
                       /\ Range(data[key].v) = Range(C17Before.extracted_data[key].v)
                       /\ Len(data[key].v) = Len(C17Before.extracted_data[key].v)
                  ELSE data[key] = C17Before.extracted_data[key]

C18Neutral ==
    [sentiment |-> "Neutral", intent |-> "Browsing", budget_signal |-> "Null",
     pain_points |-> <<>>, recommended_action |-> "Nurture",
     competitor_mentioned |-> "None"]

\* the step is the return of /qualify frame f after analyze_chat_intent raised
C18Raised(f) ==
    /\ f.kind = "qualify"
    /\ sent' # <<>>
    /\ sent'[1].id = f.id
    /\ sent'[1].trace.analysis_outcome = "error"

\* C18: analyze_chat_intent recovers from malformed JSON by returning the neutral
\* default (Neutral, Browsing, Null, no pain points, Nurture, no competitor);
\* every other analysis failure is raised, and /qualify then answers with an
\* error without setting is_qualified or lead_score on any session row and
\* without inserting a lead record.
C18_AnalysisFailure ==
    [][/\ \A g \in reqs' :
              (g.kind = "qualify" /\ g.analysis_outcome = "malformed")
                  => g.analysis = <<C18Neutral>>
       /\ \A f \in reqs : C18Raised(f) =>
              /\ sent'[1].code = 500
              /\ sent'[1].body = <<>>
              /\ store' = store
              /\ leads' = leads]_vars

\* C18 witness: a first /qualify got malformed JSON and stored the lead scored
\* from the neutral default (20, Cold); a second /qualify whose analysis raised
\* has answered 500 and the row and the lead store are as the first left them
C18_Witness ==
    /\ sent # <<>>
    /\ sent[1].kind = "qualify"
    /\ sent[1].trace.analysis_outcome = "error"
    /\ sent[1].code = 500
    /\ Len(leads) = 1
    /\ leads[1].score = 20
    /\ \E i \in SessionRows(sent[1].trace.visitor_id, sent[1].trace.session_id) :
           store[i].lead_score = 20

\* the answer of a /qualify call whose create_lead raised or returned no id
C19CrmFailed ==
    /\ sent # <<>>
    /\ sent[1].kind = "qualify"
    /\ sent[1].trace.pc = "crm_status"
    /\ ~sent[1].trace.crm_synced

\* C19: a CRM failure never rolls back a qualification. When create_lead raises
\* or returns no lead id after scoring, /qualify still answers with the computed
\* score, category and priority, a session row of the pair is is_qualified = true
\* with lead_score set, the lead record is in the lead store, and a session row
\* of the pair records crm_synced = false with a non-null crm_sync_error (the
\* same row when the pair has one row).
C19_CrmFailureKeepsQualification ==
    C19CrmFailed =>
        LET f == sent[1].trace
        IN  /\ sent[1].code = 200
            /\ sent[1].body = f.lead_score
            /\ sent[1].body[1].score = f.score
            /\ sent[1].body[1].category \in {"Hot", "Warm", "Cold"}
            /\ sent[1].body[1].priority \in {"High", "Medium", "Low"}
            /\ \E j \in 1..Len(leads) :
                   leads[j].by = f.id /\ leads[j].score = f.score
            /\ \E i \in SessionRows(f.visitor_id, f.session_id) :
                   store[i].is_qualified /\ store[i].lead_score = f.score
            /\ \E i \in SessionRows(f.visitor_id, f.session_id) :
                   store[i].crm_synced = FALSE /\ store[i].crm_sync_error = TRUE

\* C19 witness: create_lead failed for a lead scored 65; the call answered 200
\* with Warm and Medium, and the one row of the session is qualified with
\* lead_score 65, not synced, the error recorded, the lead record stored
C19_Witness ==
    /\ C19CrmFailed
    /\ sent[1].code = 200
    /\ sent[1].body = <<[score |-> 65, category |-> "Warm", priority |-> "Medium"]>>
    /\ Len(leads) = 1 /\ leads[1].score = 65 /\ leads[1].synced_to_crm = FALSE
    /\ Len(store) = 1
    /\ store[1].is_qualified /\ store[1].lead_score = 65
    /\ store[1].crm_synced = FALSE /\ store[1].crm_sync_error = TRUE

\* the step is the return of a /qualify call that found no row for its pair
C20NotFound(f) ==
    /\ f.kind = "qualify" /\ f.pc = "find"
    /\ SessionRows(f.visitor_id, f.session_id) = {}
    /\ \A g \in reqs' : g.id # f.id

\* C20: /qualify for a (visitor_id, session_id) pair that has no stored session
\* row ends with a 404 client error, not the 500 of internal failures, and
\* changes nothing: no session row is created or modified, no analysis or
\* scoring has run and no lead record is inserted.  A call that finds no row
\* for its pair can take no other step.
C20_QualifyNotFound ==
    [][\A f \in reqs :
          (f.kind = "qualify" /\ f.pc = "find" /\ SessionRows(f.visitor_id, f.session_id) = {})
              => /\ \A g \in reqs' : g.id = f.id => g = f
                 /\ C20NotFound(f) =>
                        /\ sent' # <<>>
                        /\ sent'[1].id = f.id
                        /\ sent'[1].code = 404
                        /\ sent'[1].body = <<>>
                        /\ sent'[1].trace.analysis_outcome = ""
                        /\ sent'[1].trace.lead_score = <<>>
                        /\ store' = store
                        /\ leads' = leads]_vars

\* C20 witness: the visitor has a session s1 and /qualify asked for s2: the
\* answer is 404 and the store holds the one row, unqualified, and no lead
C20_Witness ==
    /\ sent # <<>>
    /\ sent[1].kind = "qualify"
    /\ sent[1].code = 404
    /\ sent[1].trace.session_id = "s2"
    /\ Len(store) = 1
    /\ store[1].session_id = "s1"
    /\ ~store[1].is_qualified
    /\ leads = <<>>


-----------------------------------------------------------------------------
(* ConversationManager.determine_stage as a pure function *)

\* what detect_intent can classify a message as; "None": no intent key
DetectedIntents ==
    {"product_inquiry", "problem_statement", "browsing", "pricing", "off_topic", "None"}

\* fact sets of zero to four keys, with null values and the empty list among them
StageInputs ==
    {Strip(r) : r \in [visitor_email : {Absent, PyNone, PyStr("a")},
                       team_size : {Absent, PyNone, PyInt("5")},
                       current_solution : {Absent, PyStr("a")},
                       pain_points : {Absent, PyList(<<>>), PyList(<<"p1">>)}]}

InitStage ==
    /\ args \in [message_count : 0..(MaxMessageCount + 1), extracted_data : StageInputs,
                 intent : DetectedIntents]
    /\ result = <<>>
    /\ StoreIdle

CallStage ==
    /\ result = <<>>
    /\ result' = <<determine_stage(args.message_count, args.extracted_data, args.intent)>>
    /\ UNCHANGED args
    /\ StoreUnchanged

SpecStage == InitStage /\ [][CallStage]_vars

\* C21: determine_stage applies its rules in a fixed order. message_count = 1
\* gives greeting whatever the intent and the facts; otherwise product_inquiry
\* and problem_statement give qualification or discovery and nothing else,
\* browsing gives engagement, pricing gives closing, and every other or missing
\* intent gives discovery; the result is always one of the five stages.
C21_StageRuleOrder ==
    result # <<>> =>
        LET stage == result[1]
            intent == args.intent
        IN  /\ stage \in {"greeting", "discovery", "qualification", "engagement", "closing"}
            /\ args.message_count = 1 => stage = "greeting"
            /\ args.message_count # 1 =>
                   /\ intent \in {"product_inquiry", "problem_statement"}
                          => stage \in {"qualification", "discovery"}
                   /\ intent = "browsing" => stage = "engagement"
                   /\ intent = "pricing" => stage = "closing"
                   /\ intent \notin {"product_inquiry", "problem_statement", "browsing", "pricing"}
                          => stage = "discovery"

\* C21 witness: a first message classified as pricing, on four facts, is greeting
C21_Witness ==
    /\ result = <<"greeting">>
    /\ args.message_count = 1
    /\ args.intent = "pricing"
    /\ Cardinality(DOMAIN args.extracted_data) = 4


-----------------------------------------------------------------------------
(* Claims about the conversation of an /extract session *)

\* the answer of an /extract turn
ExtractAnswered == sent # <<>> /\ sent[1].kind = "extract" /\ sent[1].code = 200

\* the number of populated fields: non-null scalars and a non-empty pain_points
C22PopulatedCount(data) == Cardinality({field \in DOMAIN data : C9Present(data, field)})

\* C22 (as stated): for message_count > 1 and intent product_inquiry or
\* problem_statement, the stage computed in an /extract turn is qualification
\* if and only if the accumulated fact set has at least 3 populated fields; with
\* fewer it is discovery, and an empty pain_points list does not count.
C22_StageByPopulatedFields ==
    (/\ ExtractAnswered
     /\ sent[1].body[1].message_count > 1
     /\ sent[1].intent \in {"product_inquiry", "problem_statement"})
        => LET populated == C22PopulatedCount(sent[1].body[1].extracted_data)
           IN  /\ (sent[1].stage = "qualification") = (populated >= 3)
               /\ populated < 3 => sent[1].stage = "discovery"

\* the fact set after the first message, and after the first two
C23FactsAfter1 == merge_extractions(EmptyDict, NameCompanyTeamTurn.extraction, <<>>)
C23FactsAfter2 == merge_extractions(C23FactsAfter1, SolutionPainTurn.extraction, <<"p1">>)

\* the answer of turn k of the conversation: the session had k - 1 messages and
\* the facts of the turns before, and the message yielded what turn k yields
C23Turn(k, facts, turn) ==
    /\ ExtractAnswered
    /\ Len(sent[1].trace.session.messages) = k - 1
    /\ sent[1].trace.session.extracted_data = facts
    /\ sent[1].new_extraction = turn.extraction

C23Turn1 == C23Turn(1, EmptyDict, NameCompanyTeamTurn)
C23Turn2 == C23Turn(2, C23FactsAfter1, SolutionPainTurn)
C23Turn3 == C23Turn(3, C23FactsAfter2, EmailTurn)

\* "about": within 0.05
C23About(x, target) == x >= target - 50 /\ x <= target + 50

\* C23 (as stated): in the three-turn conversation of one session (name, company
\* and team size; current solution and a pain point; email) completeness is about
\* 0.45 after turn 1, about 0.70 after turn 2 and at least 0.6 after turn 3, and
\* ready_to_qualify is false after turns 1 and 2 and true on turn 3.
C23_ThreeTurnConversation ==
    /\ C23Turn1 => /\ C23About(sent[1].body[1].completeness, 450)
                   /\ ~sent[1].body[1].ready_to_qualify
    /\ C23Turn2 => /\ C23About(sent[1].body[1].completeness, 700)
                   /\ ~sent[1].body[1].ready_to_qualify
    /\ C23Turn3 => /\ sent[1].body[1].completeness >= 600
                   /\ sent[1].body[1].ready_to_qualify

\* C23 (amended): in that conversation completeness is 0.50 after turn 1, 0.95
\* after turn 2 and 1.0 (at least 0.6) after turn 3, and ready_to_qualify is
\* false after turns 1 and 2 and true on turn 3.
C23_ThreeTurnCompleteness ==
    /\ C23Turn1 => /\ sent[1].body[1].completeness = 500
                   /\ ~sent[1].body[1].ready_to_qualify
    /\ C23Turn2 => /\ sent[1].body[1].completeness = 950
                   /\ ~sent[1].body[1].ready_to_qualify
    /\ C23Turn3 => /\ sent[1].body[1].completeness = 1000
                   /\ sent[1].body[1].completeness >= 600
                   /\ sent[1].body[1].ready_to_qualify

\* C23 witness: the third turn has answered ready with completeness 1.0 and the
\* one row of the session holds the three messages
C23_Witness ==
    /\ C23Turn3
    /\ sent[1].body[1].ready_to_qualify
    /\ sent[1].body[1].completeness = 1000
    /\ sent[1].body[1].next_question = "None"
    /\ Len(store) = 1
    /\ Len(store[1].messages) = 3
    /\ store[1].data_completeness = 1000


-----------------------------------------------------------------------------
(* Claims about overlapping turns and the rows of a visitor *)

\* the answer of an /extract turn whose save replaced a stored row
C24Replaced == ExtractAnswered /\ sent[1].saved /\ sent[1].replaced # <<>>

\* the facts the replaced row held that the turn neither read nor extracted
C24LostFacts ==
    {field \in DOMAIN sent[1].replaced[1].extracted_data :
        /\ C9Present(sent[1].replaced[1].extracted_data, field)
        /\ ~C9Present(sent[1].trace.session.extracted_data, field)
        /\ ~C9Present(sent[1].new_extraction, field)}

\* C24: two /extract turns for the same session are not mutually exclusive.
\* The save of a turn is computed from the session the turn read and replaces
\* the whole row: the row it leaves holds the messages the turn read plus its
\* own, and none of the facts another turn stored after that read, unless the
\* turn's own message yields them.
C24_StaleSaveReplacesRow ==
    C24Replaced =>
        \E i \in SessionRows(sent[1].trace.session.visitor_id,
                             sent[1].trace.session.session_id) :
            /\ store[i].messages = Append(sent[1].trace.session.messages, sent[1].id)
            /\ store[i].extracted_data = sent[1].body[1].extracted_data
            /\ store[i].extracted_data
                   \in MergeResults(sent[1].trace.session.extracted_data,
                                    sent[1].new_extraction)
            /\ \A field \in C24LostFacts : ~C9Present(store[i].extracted_data, field)

\* C24 witness: both turns read the new row before either saved; the first
\* stored its message and the email, the second then saved, and in the final
\* state the one row has the second message only and no email
C24_Witness ==
    /\ C24Replaced
    /\ reqs = {}
    /\ sent[1].trace.session.messages = <<>>
    /\ sent[1].replaced[1].messages = <<1>>
    /\ "visitor_email" \in C24LostFacts
    /\ Len(store) = 1
    /\ store[1].messages = <<2>>
    /\ ~C9Present(store[1].extracted_data, "visitor_email")


\* C25 (as stated): in every reachable state each visitor_id has at most one
\* session row with status active, with or without user_id and with repeated
\* session_id values.
C25_OneActiveRowPerVisitor ==
    \A i, j \in 1..Len(store) :
        (/\ store[i].visitor_id = store[j].visitor_id
         /\ store[i].status = "active"
         /\ store[j].status = "active") => i = j


\* C26 (as stated): after an /extract call for (visitor_id, session_id) has
\* completed successfully (answered 200, the session saved), the store holds a
\* row with exactly that visitor_id and session_id carrying the message just
\* sent, so that /qualify for the pair finds it; also when the call continued a
\* session created under a different session_id less than 30 minutes earlier.
C26_ExtractLeavesRowForPair ==
    (ExtractAnswered /\ sent[1].saved) =>
        \E i \in SessionRows(sent[1].trace.visitor_id, sent[1].trace.session_id) :
            /\ store[i].messages # <<>>
            /\ store[i].messages[Len(store[i].messages)] = sent[1].id


-----------------------------------------------------------------------------
(* Claims about the lead records and the action text *)

\* C28 (as stated): when /qualify syncs a lead to the CRM, the lead record this
\* call inserted is the one that gets synced_to_crm = true and the returned
\* crm_lead_id, and no lead record of an earlier qualification of the visitor is
\* modified: every lead record carries the CRM id of its own sync or none (the
\* CRM id of a call is the number of its request).
C28_LeadCarriesOwnCrmId ==
    \A j \in 1..Len(leads) :
        /\ leads[j].crm_lead_id \in {0, leads[j].by}
        /\ leads[j].synced_to_crm = (leads[j].crm_lead_id # 0)


\* _determine_action(lead_score, analysis)
_determine_action(lead_score, analysis) ==
    IF lead_score.score > 80 THEN "Call Now - High Priority Lead"
    ELSE IF lead_score.score > 50
    THEN (IF analysis.recommended_action = "Schedule Demo" THEN "Schedule Demo Call"
          ELSE "Continue Engagement")
    ELSE "Add to Nurture Campaign"

\* the values GroqAnalysisResult admits
AdmittedSentiments == {"Positive", "Neutral", "Frustrated"}
AdmittedIntents == {"Buying", "Support", "Browsing"}
AdmittedBudgetSignals == {"High", "Low", "Null"}
RecommendedActions == {"Schedule Demo", "Offer Discount", "Escalate", "Nurture"}

InitAction ==
    /\ args \in [analysis : [budget_signal : AdmittedBudgetSignals, intent : AdmittedIntents,
                             sentiment : AdmittedSentiments,
                             pain_points : ListsUpTo({"p1"}, MaxListLen),
                             recommended_action : RecommendedActions],
                 visit_count : 1..MaxVisitCount]
    /\ result = <<>>
    /\ StoreIdle

\* qualify_lead, lines 258-270: the score, then the action text
CallAction ==
    /\ result = <<>>
    /\ LET lead_score == calculate_lead_score(args.analysis, args.visit_count)
       IN  result' = <<[lead_score |-> lead_score,
                        action |-> _determine_action(lead_score, args.analysis)]>>
    /\ UNCHANGED args
    /\ StoreUnchanged

SpecAction == InitAction /\ [][CallAction]_vars

\* C29 (as stated): the action text returned by /qualify agrees with the lead
\* category for every reachable score, 80 and 50 included: every Hot lead gets
\* "Call Now - High Priority Lead", every Warm lead "Schedule Demo Call" or
\* "Continue Engagement", every Cold lead "Add to Nurture Campaign".
C29_ActionAgreesWithCategory ==
    result # <<>> =>
        LET category == result[1].lead_score.category
            action == result[1].action
        IN  /\ category = "Hot" => action = "Call Now - High Priority Lead"
            /\ category = "Warm" => action \in {"Schedule Demo Call", "Continue Engagement"}
            /\ category = "Cold" => action = "Add to Nurture Campaign"


-----------------------------------------------------------------------------
(* Claims about the completeness and the readiness of a session over its turns *)

\* the session a turn got had been answered as ready by the turn before
C30WasReady(session) ==
    /\ session.messages # <<>>
    /\ is_ready_to_qualify(session.data_completeness, session.extracted_data,
                           Len(session.messages))

\* C30 (as stated): over any sequence of non-overlapping /extract turns the
\* stored data_completeness of a session never decreases and always equals
\* calculate_completeness of the stored extracted_data, and once a turn has
\* returned ready_to_qualify = true every later turn of that session returns
\* true, whatever the later extractions contain.
C30_CompletenessAndReadinessMonotone ==
    [][/\ \A i \in 1..Len(store) :
              store'[i].data_completeness >= store[i].data_completeness
       /\ \A i \in 1..Len(store') :
              store'[i].data_completeness = calculate_completeness(store'[i].extracted_data)
       /\ (/\ sent' # <<>>
           /\ sent'[1].kind = "extract"
           /\ C30WasReady(sent'[1].trace.session))
              => sent'[1].body[1].ready_to_qualify]_vars

====
